---------------------------- MODULE Spec2Model ----------------------------
(***************************************************************************)
(* tempcke/httputil: the adaptive rate limiter (src/ratelimiter.go) and    *)
(* the dispatch / 429-retry loop of Client.Do (the Client source, held in  *)
(* src/ratelimiter_test.go lines 106-287).                                 *)
(*                                                                         *)
(* float64 values (rates, tokens, changePercent) are exact rationals       *)
(* <<n, d>> in lowest terms with d > 0.  Time is counted in ticks,         *)
(* TicksPerSec ticks to the second.                                        *)
(***************************************************************************)
EXTENDS Integers, Sequences, FiniteSets, TLC

(***************************************************************************)
(* Bounds of the model.                                                    *)
(***************************************************************************)
MaxRetries == 2
MaxTasks == 3
MaxStartDelay == 1
MaxOps == 3
\* the bits a float keeps (float64: 53)
FloatBits == 4

\* ticks per second, the resolution of the clock (the library's is the
\* nanosecond): the refill interval of the rates 1/2, 1, 3/2 and 2 is a whole
\* number of ticks, that of 5/2 is not
TicksPerSec == 2 * 3

(***************************************************************************)
(* Program constants.                                                      *)
(***************************************************************************)
MaxInt32 == 2147483647
DefaultBurst == 1
Default429Retry == 2
StatusTooManyRequests == 429

(***************************************************************************)
(* Exact rational arithmetic standing for float64.                         *)
(***************************************************************************)
Abs(x) == IF x < 0 THEN -x ELSE x

RECURSIVE GCD(_, _)
GCD(a, b) == IF b = 0 THEN a ELSE GCD(b, a % b)

Rat(n, d) ==
    LET g == GCD(Abs(n), Abs(d))
        s == IF d < 0 THEN -1 ELSE 1
    IN  IF g = 0 THEN <<0, 0>> ELSE <<s * (n \div g), s * (d \div g)>>

Zero == <<0, 1>>
One == <<1, 1>>
RInt(i) == <<i, 1>>
RAdd(a, b) == Rat(a[1] * b[2] + b[1] * a[2], a[2] * b[2])
RSub(a, b) == Rat(a[1] * b[2] - b[1] * a[2], a[2] * b[2])
RMul(a, b) == Rat(a[1] * b[1], a[2] * b[2])
RDiv(a, b) == Rat(a[1] * b[2], a[2] * b[1])
RLt(a, b) == a[1] * b[2] < b[1] * a[2]
RLe(a, b) == a[1] * b[2] <= b[1] * a[2]
RMin(a, b) == IF RLt(b, a) THEN b ELSE a
\* the greatest integer <= a, the least integer >= a
RFloor(a) == a[1] \div a[2]
RCeil(a) == IF a[1] % a[2] = 0 THEN a[1] \div a[2] ELSE (a[1] \div a[2]) + 1

RECURSIVE RPow(_, _)
RPow(a, m) == IF m = 0 THEN One ELSE RMul(a, RPow(a, m - 1))

MaxAllowedCallsPerSecond == RInt(MaxInt32)

(***************************************************************************)
(* Rounding.  A float64 keeps 53 bits of a number; Fl(m, a) keeps m bits:  *)
(* it is the number of the form k * 2^e, 2^(m-1) <= k < 2^m, nearest to a  *)
(* (ties to the even k).  Fl(0, a) is a: arithmetic without rounding.      *)
(***************************************************************************)
RECURSIVE FlPos(_, _, _, _)
FlPos(m, n, d, e) ==
    IF n >= d * 2^m THEN FlPos(m, n, 2 * d, e + 1)
    ELSE IF n < d * 2^(m - 1) THEN FlPos(m, 2 * n, d, e - 1)
    ELSE LET q == n \div d
             rem == n % d
             k == IF 2 * rem > d \/ (2 * rem = d /\ q % 2 = 1)
                  THEN q + 1 ELSE q
         IN  IF e >= 0 THEN Rat(k * 2^e, 1) ELSE Rat(k, 2^(-e))

Fl(m, a) ==
    IF m = 0 \/ a[1] = 0 \/ a[2] = 0 THEN a
    ELSE IF a[1] < 0 THEN RSub(Zero, FlPos(m, -a[1], a[2], 0))
    ELSE FlPos(m, a[1], a[2], 0)
DefaultCPSChangePercent == <<1, 10>>

(***************************************************************************)
(* golang.org/x/time/rate.Limiter, the token bucket behind RateLimiter:    *)
(* continuous accounting, one reservation per Wait.                        *)
(***************************************************************************)
\* a duration that never ends (rate.InfDuration)
InfDuration == -1

NoLimiter == [set |-> FALSE, limit |-> Zero, burst |-> 0, tokens |-> Zero,
              last |-> 0, lastEvent |-> 0]

\* rate.NewLimiter(r, b): the bucket starts full
RateNewLimiter(r, b) ==
    [set |-> TRUE, limit |-> r, burst |-> b, tokens |-> RInt(b),
     last |-> 0, lastEvent |-> 0]

\* Limit.tokensFromDuration: the tokens that accrue in d ticks
tokensFromDuration(limit, d) ==
    IF RLe(limit, Zero) THEN Zero ELSE RMul(limit, Rat(d, TicksPerSec))

\* Limit.durationFromTokens: the time it takes to accrue the tokens, which
\* the conversion to a Duration truncates to whole ticks
durationFromTokens(limit, tokens) ==
    IF RLe(limit, Zero) THEN InfDuration
    ELSE RFloor(RMul(RDiv(tokens, limit), RInt(TicksPerSec)))

\* Limiter.advance: the tokens held at time t, capped at burst
RateAdvance(lim, t) ==
    LET last == IF t < lim.last THEN t ELSE lim.last
        tokens == RAdd(lim.tokens, tokensFromDuration(lim.limit, t - last))
    IN  RMin(tokens, RInt(lim.burst))

RateSetLimitAt(lim, t, newLimit) ==
    [lim EXCEPT !.tokens = RateAdvance(lim, t), !.last = t, !.limit = newLimit]

RateSetBurstAt(lim, t, newBurst) ==
    [lim EXCEPT !.tokens = RateAdvance(lim, t), !.last = t, !.burst = newBurst]

NoReservation == [ok |-> FALSE, tokens |-> 0, timeToAct |-> 0, limit |-> Zero]

\* Limiter.reserveN(t, 1, InfDuration): <<reservation, limiter afterwards>>
RateReserveN(lim, t) ==
    LET tokens == RSub(RateAdvance(lim, t), One)
        waitDuration == IF RLt(tokens, Zero)
                        THEN durationFromTokens(lim.limit, RSub(Zero, tokens))
                        ELSE 0
        ok == 1 <= lim.burst
        timeToAct == IF waitDuration = InfDuration THEN InfDuration
                     ELSE t + waitDuration
    IN  IF ok
        THEN <<[ok |-> TRUE, tokens |-> 1, timeToAct |-> timeToAct,
                limit |-> lim.limit],
               [lim EXCEPT !.last = t, !.tokens = tokens,
                           !.lastEvent = timeToAct]>>
        ELSE <<[NoReservation EXCEPT !.limit = lim.limit], lim>>

\* Reservation.CancelAt(t): hands back the tokens no later reservation rests on
RateCancelAt(lim, r, t) ==
    IF ~r.ok \/ r.tokens = 0 \/ r.timeToAct = InfDuration \/ r.timeToAct < t
    THEN lim
    ELSE LET restoreTokens ==
                 RSub(RInt(r.tokens),
                      tokensFromDuration(r.limit, lim.lastEvent - r.timeToAct))
         IN  IF RLe(restoreTokens, Zero) THEN lim
             ELSE LET tokens == RMin(RAdd(RateAdvance(lim, t), restoreTokens),
                                     RInt(lim.burst))
                      back == durationFromTokens(r.limit, RInt(r.tokens))
                      prevEvent == r.timeToAct - back
                  IN  [lim EXCEPT
                         !.last = t,
                         !.tokens = tokens,
                         !.lastEvent =
                            IF r.timeToAct = lim.lastEvent /\ back # InfDuration
                               /\ prevEvent >= t
                            THEN prevEvent ELSE lim.lastEvent]

(***************************************************************************)
(* RateLimiter (src/ratelimiter.go).  A *RateLimiter is a record: nil is   *)
(* the nil pointer, Limiter.set tells whether the Limiter field is non-nil.*)
(* The operations that read the clock take the time t.  prec is the        *)
(* number of bits its float64 arithmetic keeps in the model (0: all).      *)
(***************************************************************************)
NilRateLimiter ==
    [nil |-> TRUE, Limiter |-> NoLimiter, changePercent |-> Zero, prec |-> 0]

\* &RateLimiter{}: a non-nil RateLimiter with no Limiter
UnsetRateLimiter(percent) ==
    [nil |-> FALSE, Limiter |-> NoLimiter, changePercent |-> percent,
     prec |-> 0]

Absent(r) == r.nil \/ ~r.Limiter.set

\* mutant of SetLimit: it builds a new bucket every time
SetLimitRebuilding(r, t, refillRate) ==
    IF r.nil THEN r
    ELSE [r EXCEPT !.Limiter = RateNewLimiter(refillRate, DefaultBurst)]

SetLimit(r, t, refillRate) ==
    IF r.nil THEN r
    ELSE IF ~r.Limiter.set
         THEN [r EXCEPT !.Limiter = RateNewLimiter(refillRate, DefaultBurst)]
         ELSE [r EXCEPT !.Limiter = RateSetLimitAt(r.Limiter, t, refillRate)]

Limit(r) == IF Absent(r) THEN MaxAllowedCallsPerSecond ELSE r.Limiter.limit

\* mutant of SetBurst: like SetLimit, it builds the missing bucket
SetBurstConstructing(r, t, burst) ==
    IF r.nil THEN r
    ELSE IF ~r.Limiter.set
         THEN [r EXCEPT !.Limiter =
                           RateNewLimiter(MaxAllowedCallsPerSecond, burst)]
         ELSE [r EXCEPT !.Limiter = RateSetBurstAt(r.Limiter, t, burst)]

SetBurst(r, t, burst) ==
    IF Absent(r) THEN r
    ELSE [r EXCEPT !.Limiter = RateSetBurstAt(r.Limiter, t, burst)]

Burst(r) == IF Absent(r) THEN DefaultBurst ELSE r.Limiter.burst

\* mutant of SlowDown: the rate is cut to nothing
SlowDownToZero(r, t) == IF Absent(r) THEN r ELSE SetLimit(r, t, Zero)

\* mutant of SlowDown: changePercent is subtracted from the rate
SlowDownBySubtracting(r, t) ==
    IF Absent(r) THEN r
    ELSE SetLimit(r, t, RSub(Limit(r), r.changePercent))

SlowDown(r, t) ==
    IF Absent(r) THEN r
    ELSE SetLimit(r, t, Fl(r.prec, RMul(Limit(r),
                                        Fl(r.prec, RSub(One, r.changePercent)))))

\* mutant of SpeedUp: the rate grows by changePercent
SpeedUpByMultiplying(r, t) ==
    IF Absent(r) THEN r
    ELSE SetLimit(r, t, Fl(r.prec, RMul(Limit(r),
                                        Fl(r.prec, RAdd(One, r.changePercent)))))

SpeedUp(r, t) ==
    IF Absent(r) THEN r
    ELSE SetLimit(r, t, Fl(r.prec, RDiv(Limit(r),
                                        Fl(r.prec, RSub(One, r.changePercent)))))

\* the options of NewRateLimiter, as records
RateLimitChangePercent(percent) ==
    [opt |-> "ChangePercent", percent |-> percent, burst |-> 0]
RateLimitBurst(burst) ==
    [opt |-> "Burst", percent |-> Zero, burst |-> burst]

ApplyOption(r, o) ==
    IF o.opt = "ChangePercent" THEN [r EXCEPT !.changePercent = o.percent]
    ELSE SetBurst(r, 0, o.burst)

RECURSIVE ApplyOptions(_, _)
ApplyOptions(r, options) ==
    IF options = <<>> THEN r
    ELSE ApplyOptions(ApplyOption(r, Head(options)), Tail(options))

\* mutant of NewRateLimiter: the bucket holds two tokens
NewRateLimiterDoubleBurst(limit, options) ==
    ApplyOptions([nil |-> FALSE,
                  Limiter |-> RateNewLimiter(limit, DefaultBurst + 1),
                  changePercent |-> DefaultCPSChangePercent,
                  prec |-> 0], options)

NewRateLimiter(limit, options) ==
    ApplyOptions([nil |-> FALSE,
                  Limiter |-> RateNewLimiter(limit, DefaultBurst),
                  changePercent |-> DefaultCPSChangePercent,
                  prec |-> 0], options)

(***************************************************************************)
(* RateLimiter.Wait, up to the point where it returns or goes to sleep:    *)
(* ret is "nil" (returned nil), "err" (returned err) or "sleep" (asleep    *)
(* until resv.timeToAct or until the context is done).                     *)
(***************************************************************************)
WaitResult(ret, e, r, resv) == [ret |-> ret, err |-> e, rl |-> r, resv |-> resv]

\* mutant of Wait: it returns nil where it has to sleep for its token
WaitNotSleeping(r, ctxDone, t) ==
    IF Absent(r) THEN WaitResult("nil", "nil", r, NoReservation)
    ELSE IF 1 > r.Limiter.burst
         THEN WaitResult("err", "burst", r, NoReservation)
    ELSE IF ctxDone THEN WaitResult("err", "ctx", r, NoReservation)
    ELSE LET rv == RateReserveN(r.Limiter, t)
             r2 == [r EXCEPT !.Limiter = rv[2]]
         IN  WaitResult("nil", "nil", r2, NoReservation)

\* mutant of Wait: the context is looked at before the limiter
WaitCtxFirst(r, ctxDone, t) ==
    IF ctxDone THEN WaitResult("err", "ctx", r, NoReservation)
    ELSE IF Absent(r) THEN WaitResult("nil", "nil", r, NoReservation)
    ELSE IF 1 > r.Limiter.burst
         THEN WaitResult("err", "burst", r, NoReservation)
    ELSE LET rv == RateReserveN(r.Limiter, t)
             r2 == [r EXCEPT !.Limiter = rv[2]]
         IN  IF rv[1].timeToAct = t
             THEN WaitResult("nil", "nil", r2, NoReservation)
             ELSE WaitResult("sleep", "nil", r2, rv[1])

Wait(r, ctxDone, t) ==
    IF Absent(r) THEN WaitResult("nil", "nil", r, NoReservation)
    ELSE IF 1 > r.Limiter.burst
         THEN WaitResult("err", "burst", r, NoReservation)
    ELSE IF ctxDone THEN WaitResult("err", "ctx", r, NoReservation)
    ELSE LET rv == RateReserveN(r.Limiter, t)
             r2 == [r EXCEPT !.Limiter = rv[2]]
         IN  IF rv[1].timeToAct = t
             THEN WaitResult("nil", "nil", r2, NoReservation)
             ELSE WaitResult("sleep", "nil", r2, rv[1])

\* the sleeping Wait sees its context done: it cancels the reservation
WaitCancel(r, resv, t) == [r EXCEPT !.Limiter = RateCancelAt(r.Limiter, resv, t)]

(***************************************************************************)
(* Headers (src/request.go).  An http.Header is a map from a key to the    *)
(* list of its values: here a function on HeaderKeys, <<>> for a key the   *)
(* map lacks.  Maps are references: heap[a] is the map at address a, and   *)
(* address 0 is the nil map.  A ReqHeaders is a record of its ReqID and    *)
(* the address h of its map; its methods have pointer receivers, so they   *)
(* return the receiver and the heap they leave.                            *)
(***************************************************************************)
HeaderReqID == "X-Request-ID"
HeaderContentType == "Content-Type"
ApplicationJSON == "application/json"

HeaderKeys == {HeaderReqID, HeaderContentType, "X-Foo"}
NoHeaders == [k \in HeaderKeys |-> <<>>]

\* http.Header.Add and http.Header.Set
HeaderAdd(m, key, val) == [m EXCEPT ![key] = Append(@, val)]
HeaderSet(m, key, val) == [m EXCEPT ![key] = <<val>>]

\* the map at address a, read as range loops read it: nil has no entries
Deref(hp, a) == IF a = 0 THEN NoHeaders ELSE hp[a]

NoReqHeaders == [ReqID |-> "", h |-> 0]

\* if r.h == nil { r.h = make(http.Header) }
MakeIfNil(r, hp) ==
    IF r.h = 0 THEN [r |-> [r EXCEPT !.h = Len(hp) + 1],
                     heap |-> Append(hp, NoHeaders)]
    ELSE [r |-> r, heap |-> hp]

RECURSIVE AddAll(_, _, _)
AddAll(m, key, vals) ==
    IF vals = <<>> THEN m
    ELSE AddAll(HeaderAdd(m, key, Head(vals)), key, Tail(vals))

RECURSIVE SetAll(_, _, _)
SetAll(m, key, vals) ==
    IF vals = <<>> THEN m
    ELSE SetAll(HeaderSet(m, key, Head(vals)), key, Tail(vals))

AddHeader(r, hp, key, vals) ==
    LET mk == MakeIfNil(r, hp)
    IN  [r |-> mk.r,
         heap |-> [mk.heap EXCEPT ![mk.r.h] = AddAll(@, key, vals)]]

SetHeader(r, hp, key, vals) ==
    LET mk == MakeIfNil(r, hp)
    IN  [r |-> mk.r,
         heap |-> [mk.heap EXCEPT ![mk.r.h] = SetAll(@, key, vals)]]

\* Header returns r.h (ret: its address) after adding ReqID to it
Header(r, hp) ==
    LET a == IF r.ReqID # "" THEN AddHeader(r, hp, HeaderReqID, <<r.ReqID>>)
             ELSE [r |-> r, heap |-> hp]
    IN  [r |-> a.r, heap |-> a.heap, ret |-> a.r.h]

\* reqWithHeaders: every value of every key of headers is added to the
\* header m of the request
reqWithHeaders(m, headers) == [k \in HeaderKeys |-> m[k] \o headers[k]]

(***************************************************************************)
(* State.                                                                  *)
(*   rl       the *RateLimiter (shared by every caller)                    *)
(*   now      the clock, in ticks                                          *)
(*   retries  Client.RetriesOn429                                          *)
(*   pc, tries, res, err, resv, ctxDone                                    *)
(*            one call of Client.Do: where it is, its locals, the          *)
(*            reservation its Wait sleeps on, whether req.Context() is done*)
(*   trace, sent, rlA                                                      *)
(*            history of that call: the events of its attempts in order,   *)
(*            what the transport returned to each call, and the limiter    *)
(*            when the current attempt began                               *)
(*   rl0      history: the limiter at the start                            *)
(*   task, nTasks, nCalls, last, win                                       *)
(*            the goroutines that call the limiter directly: the call each *)
(*            is in or has last made; how many there are; how many calls   *)
(*            they have made; history: the call that returned last, and    *)
(*            the window in which an observer counts the Waits that pass   *)
(*   heap     the http.Header maps of the client and of the request model  *)
(*   client, client2                                                       *)
(*            the Client value c of the program, and the value c2 the      *)
(*            last With* call returned                                     *)
(*   rq       the ReqHeaders of the request model given to DoReq           *)
(*   reqHeader                                                             *)
(*            req.Header of the *http.Request given to Client.Do           *)
(*   seen     history: the header of the request at each transport call    *)
(*   hret     history: the Header() calls made in a row on the client's    *)
(*            ReqHeaders, what the first and the last of them returned     *)
(*   dq       one call of Client.DoReq: where it is, what it returned      *)
(***************************************************************************)
VARIABLES rl, now, retries, pc, tries, res, err, resv, ctxDone,
          trace, sent, rlA, rl0, task, nTasks, nCalls, last, win,
          heap, client, client2, rq, reqHeader, seen, hret, dq

vars == <<rl, now, retries, pc, tries, res, err, resv, ctxDone,
          trace, sent, rlA, rl0, task, nTasks, nCalls, last, win,
          heap, client, client2, rq, reqHeader, seen, hret, dq>>

\* the variables of the headers, of the builders and of Client.DoReq
hdrVars == <<heap, client, client2, rq, reqHeader, seen, hret, dq>>

\* the variables of the direct callers of the limiter
taskVars == <<task, nTasks, nCalls, last, win>>
\* the variables of Client.Do
doVars == <<retries, pc, tries, res, err, resv, ctxDone, trace, sent, rlA,
           hdrVars>>

(***************************************************************************)
(* Client.Do and Client.do (src/ratelimiter_test.go lines 221-287).        *)
(***************************************************************************)
\* a Client value: the embedded ReqHeaders and the other fields; the
\* logger, the transport and the limiter are references, named by strings
NewClient ==
    [ReqHeaders |-> NoReqHeaders, HttpClient |-> "defaultClient",
     Host |-> "", log |-> "slog.Default", RateLimiter |-> "rl",
     RetriesOn429 |-> Default429Retry]

\* nothing counted: no Header() call since the headers were last set
NoHeaderCalls == [n |-> 0, first |-> NoHeaders, val |-> NoHeaders]

\* an error value is the set of the errors errors.Is finds in it; nil is {}
ErrorOf(e) == IF e = "nil" THEN {} ELSE {e}
ErrorsIs(e, target) == target \in e
\* fmt.Errorf("%w: %w", a, b)
ErrorfWW(a, b) == a \cup b

\* no call of Client.DoReq: where it is (pc), what Validate returned (v),
\* what DoReq returned (res, err)
NoDoReq == [pc |-> "off", v |-> "nil",
            res |-> [nil |-> TRUE, status |-> 0, n |-> 0], err |-> {}]

\* a *http.Response: nil, or the response the transport gave to call n
NoResponse == [nil |-> TRUE, status |-> 0, n |-> 0]
Response(status, n) == [nil |-> FALSE, status |-> status, n |-> n]

Statuses == {200, 404, StatusTooManyRequests, 500}
TransportErrs == {"nil", "transport"}

\* what httpClient.Do may return to the n-th call: any (res, err) pair
Outcomes(n) ==
    [res : {NoResponse} \cup {Response(st, n) : st \in Statuses},
     err : TransportErrs]

Is429(r) == ~r.nil /\ r.status = StatusTooManyRequests

\* mutants of doRetry: one retry too many; a retry after any response; a
\* retry after a nil response
doRetryOffByOne(r, t, k) == Is429(r) /\ t <= k
doRetryAnyStatus(r, t, k) == ~r.nil /\ t < k
doRetryOnNil(r, t, k) == (r.nil \/ r.status = StatusTooManyRequests) /\ t < k

\* the loop condition of Client.Do
doRetry(r, t, k) == Is429(r) /\ t < k

\* mutant of doSlowDown: SlowDown on every status from 400 up
doSlowDownOnAnyError(r, e) == ~r.nil /\ r.status >= 400

\* the condition under which Client.do calls SlowDown
doSlowDown(r, e) == Is429(r)

\* logRqRs: the level it logs at; "panic" where it dereferences a nil res
logRqRs(r, e) ==
    IF e # "nil" THEN "Error"
    ELSE IF r.nil THEN "panic"
    ELSE IF r.status >= 400 THEN "Warn"
    ELSE "Info"

\* Client.do after a successful Wait: the events that follow for outcome o
doEvents(o) ==
    <<"send", logRqRs(o.res, o.err)>>
    \o (IF logRqRs(o.res, o.err) # "panic" /\ doSlowDown(o.res, o.err)
        THEN <<"SlowDown">> ELSE <<>>)

\* mutant of doWaitNext: the error of Wait is dropped
doWaitNextIgnoringErr(ret) == IF ret = "sleep" THEN "wait" ELSE "send"

\* Client.do after Wait: on an error it returns (nil, err) to the loop of
\* Client.Do, otherwise it goes on to the transport call
doWaitNext(ret) ==
    IF ret = "err" THEN "loop" ELSE IF ret = "nil" THEN "send" ELSE "wait"

\* Client.Do begins: tries = 0, then the first c.do(req)
DoEnter ==
    /\ pc = "idle"
    /\ pc' = "do"
    /\ tries' = 0
    /\ trace' = <<>>
    /\ sent' = <<>>
    /\ rlA' = rl
    /\ UNCHANGED <<rl, now, retries, res, err, resv, ctxDone, rl0>>
    /\ UNCHANGED taskVars

\* the program calls Client.Do with a request it has built
DoCall ==
    /\ dq.pc = "off"
    /\ DoEnter
    /\ UNCHANGED hdrVars

\* Client.do: c.RateLimiter.Wait(req.Context()) returns or goes to sleep
doWait ==
    /\ pc = "do"
    /\ LET w == Wait(rl, ctxDone, now)
       IN  /\ rl' = w.rl
           /\ resv' = w.resv
           /\ pc' = doWaitNext(w.ret)
           /\ IF w.ret = "nil"
              THEN /\ trace' = Append(trace, "Wait")
                   /\ UNCHANGED <<res, err>>
              ELSE IF w.ret = "err"
              THEN /\ res' = NoResponse
                   /\ err' = w.err
                   /\ trace' = Append(trace, "WaitErr")
              ELSE UNCHANGED <<res, err, trace>>
    /\ UNCHANGED <<now, retries, tries, ctxDone, sent, rlA, rl0>>
    /\ UNCHANGED taskVars
    /\ UNCHANGED hdrVars

\* time passes while the Wait of Client.do sleeps
doWaitTick ==
    /\ pc = "wait"
    /\ resv.timeToAct # InfDuration
    /\ now < resv.timeToAct
    /\ now' = now + 1
    /\ UNCHANGED <<rl, rl0>>
    /\ UNCHANGED doVars
    /\ UNCHANGED taskVars

\* the timer of the sleeping Wait fires: Wait returns nil
doWaitWake ==
    /\ pc = "wait"
    /\ resv.timeToAct # InfDuration
    /\ now >= resv.timeToAct
    /\ pc' = doWaitNext("nil")
    /\ resv' = NoReservation
    /\ trace' = Append(trace, "Wait")
    /\ UNCHANGED <<rl, now, retries, tries, res, err, ctxDone, sent, rlA, rl0>>
    /\ UNCHANGED taskVars
    /\ UNCHANGED hdrVars

\* the sleeping Wait sees ctx.Done(): it cancels its reservation and
\* returns ctx.Err(); Client.do returns (nil, err)
doWaitCancel ==
    /\ pc = "wait"
    /\ ctxDone
    /\ rl' = WaitCancel(rl, resv, now)
    /\ resv' = NoReservation
    /\ pc' = doWaitNext("err")
    /\ res' = NoResponse
    /\ err' = "ctx"
    /\ trace' = Append(trace, "WaitErr")
    /\ UNCHANGED <<now, retries, tries, ctxDone, sent, rlA, rl0>>
    /\ UNCHANGED taskVars
    /\ UNCHANGED hdrVars

\* c.Header() in Client.do, whose receiver c is a copy of the program's
\* Client: ReqID is added to the map c.h when the Client has one, and to a
\* map of the copy alone when c.h is nil
doHeader(c, hp) ==
    LET hr == Header(c.ReqHeaders, hp)
    IN  [heap |-> IF c.ReqHeaders.h = 0 THEN hp ELSE hr.heap,
         headers |-> Deref(hr.heap, hr.ret)]

\* Client.do after Wait: the transport call on reqWithHeaders(req,
\* c.Header()), logRqRs, SlowDown on a 429
doSend ==
    /\ pc = "send"
    /\ LET hd == doHeader(client, heap)
       IN  /\ heap' = hd.heap
           /\ reqHeader' = reqWithHeaders(reqHeader, hd.headers)
           /\ seen' = Append(seen, reqHeader')
    /\ UNCHANGED <<client, client2, rq, hret, dq>>
    /\ \E o \in Outcomes(Len(sent) + 1) :
          /\ sent' = Append(sent, o)
          /\ trace' = trace \o doEvents(o)
          /\ IF logRqRs(o.res, o.err) = "panic"
             THEN /\ pc' = "panic"
                  /\ UNCHANGED <<rl, res, err>>
             ELSE /\ pc' = "loop"
                  /\ res' = o.res
                  /\ err' = o.err
                  /\ rl' = IF doSlowDown(o.res, o.err)
                           THEN SlowDown(rl, now) ELSE rl
    /\ UNCHANGED <<now, retries, tries, resv, ctxDone, rlA, rl0>>
    /\ UNCHANGED taskVars

\* Client.Do: the for loop after c.do(req) returned; the return
DoLoop ==
    /\ pc = "loop"
    /\ IF doRetry(res, tries, retries)
       THEN /\ tries' = tries + 1
            /\ pc' = "do"
            /\ rlA' = rl
       ELSE /\ pc' = "returned"
            /\ UNCHANGED <<tries, rlA>>
    /\ UNCHANGED <<rl, now, retries, res, err, resv, ctxDone, trace, sent, rl0>>
    /\ UNCHANGED taskVars
    /\ UNCHANGED hdrVars

\* the caller cancels the request's context
CtxCancel ==
    /\ ~ctxDone
    /\ pc \in {"idle", "do", "wait", "send", "loop"}
    /\ ctxDone' = TRUE
    /\ UNCHANGED <<rl, now, retries, pc, tries, res, err, resv,
                   trace, sent, rlA, rl0>>
    /\ UNCHANGED taskVars
    /\ UNCHANGED hdrVars

(***************************************************************************)
(* Spec: one client, one call of Client.Do.  The limiter is nil, unset or  *)
(* built by NewRateLimiter with a rate, a changePercent and a burst of the *)
(* data model's ranges, its bucket full or drained by earlier calls.       *)
(***************************************************************************)
ClientRates == {RInt(2), RInt(100)}
ClientPercents == {<<1, 10>>, <<1, 2>>}
ClientBursts == {1, 2}

RECURSIVE Drained(_, _)
Drained(r, n) == IF n = 0 THEN r ELSE Drained(Wait(r, FALSE, 0).rl, n - 1)

ClientLimiters ==
    LET built == {NewRateLimiter(r, <<RateLimitChangePercent(p),
                                      RateLimitBurst(b)>>) :
                    r \in ClientRates, p \in ClientPercents, b \in ClientBursts}
    IN  {NilRateLimiter, UnsetRateLimiter(Zero)}
        \cup built \cup {Drained(r, Burst(r)) : r \in built}

\* a goroutine that calls nothing
NoTask == [pc |-> "off", op |-> "none", arg |-> Zero, ctxDone |-> FALSE,
           resv |-> NoReservation, fnErr |-> "nil"]

\* no call has returned
NoCall == [t |-> 0, op |-> "none", arg |-> Zero, ctxDone |-> FALSE,
           slept |-> FALSE, err |-> "nil", fnErr |-> "nil", calls |-> 0,
           val |-> Zero, at |-> 0, rlB |-> NilRateLimiter,
           rlR |-> NilRateLimiter]

\* a window of observation: whether it is open, the time it opened at
\* (from) and the number n of Waits that have returned nil in it
NoWindow == [open |-> FALSE, from |-> 0, n |-> 0]
Counted(w) == IF w.open THEN [w EXCEPT !.n = @ + 1] ELSE w

\* a Client built by NewClient, WithRateLimiter and With429Retry, with no
\* headers; a request without headers; no call of DoReq
InitNoHeaders ==
    /\ heap = <<>>
    /\ client = [NewClient EXCEPT !.RetriesOn429 = retries]
    /\ client2 = client
    /\ rq = NoReqHeaders
    /\ reqHeader = NoHeaders
    /\ seen = <<>>
    /\ hret = NoHeaderCalls
    /\ dq = NoDoReq

\* no call of Client.Do
InitNoDo ==
    /\ retries = Default429Retry
    /\ pc = "off"
    /\ tries = 0
    /\ res = NoResponse
    /\ err = "nil"
    /\ resv = NoReservation
    /\ ctxDone = FALSE
    /\ trace = <<>>
    /\ sent = <<>>
    /\ rlA = rl
    /\ InitNoHeaders

Init ==
    /\ rl \in ClientLimiters
    /\ now = 0
    /\ retries \in -1 .. MaxRetries
    /\ pc = "idle"
    /\ tries = 0
    /\ res = NoResponse
    /\ err = "nil"
    /\ resv = NoReservation
    /\ ctxDone = FALSE
    /\ trace = <<>>
    /\ sent = <<>>
    /\ rlA = rl
    /\ InitNoHeaders
    /\ rl0 = rl
    /\ task = [t \in 1 .. MaxTasks |-> NoTask]
    /\ nTasks = 0
    /\ nCalls = 0
    /\ last = NoCall
    /\ win = NoWindow

Next ==
    \/ DoCall
    \/ doWait
    \/ doWaitTick
    \/ doWaitWake
    \/ doWaitCancel
    \/ doSend
    \/ DoLoop
    \/ CtxCancel

Spec == Init /\ [][Next]_vars

\* the step doWait, told by what it does to pc: Wait always returns or goes
\* to sleep when it is called, and of the steps of Next doWait alone takes
\* pc from "do" to another value (DoWaitIsWaitStep)
WaitStep == pc = "do" /\ pc' \in {"send", "wait", "loop"}

DoWaitIsWaitStep == [][WaitStep <=> doWait]_vars

\* SpecLive: Spec in which the goroutine of Client.Do is scheduled (its
\* call of Wait is made, its loop goes on), the clock advances while Wait
\* sleeps, the timer of the sleeping Wait fires, and the transport returns
\* from every call.  Nothing obliges the program to call Do, nor the
\* context to be cancelled.
SpecLive ==
    /\ Init
    /\ [][Next]_vars
    /\ WF_pc(WaitStep)
    /\ WF_vars(doWaitTick)
    /\ WF_vars(doWaitWake)
    /\ WF_vars(doSend)
    /\ WF_vars(DoLoop)

(***************************************************************************)
(* Client.DoReq, Client.Request and Client.DoAndDecode                     *)
(* (src/ratelimiter_test.go lines 163-220).                                *)
(***************************************************************************)
ErrInvalidRequest == "ErrInvalidRequest"

\* what r.Validate() may return, what may fail in Client.Request
\* (json.Marshal of the body, http.NewRequestWithContext), and what
\* DecodeResOrErrRes may return
ValidateErrs == {"nil", "ErrStreetRequired"}
RequestErrs == {"nil", "jsonEncode", "newRequest"}
DecodeErrs == {"nil", "decode"}

\* mutant of DoReqInvalid: the validation error is formatted, not wrapped
DoReqInvalidNotWrapped(v) ==
    [pc |-> "returned", v |-> v, res |-> NoResponse,
     err |-> ErrorOf(ErrInvalidRequest)]

\* DoReq when r.Validate() returned the error v
DoReqInvalid(v) ==
    [pc |-> "returned", v |-> v, res |-> NoResponse,
     err |-> ErrorfWW(ErrorOf(ErrInvalidRequest), ErrorOf(v))]

\* Client.Request with the headers r.Header() returned (at address a) and
\* a body that is not an io.Reader: Content-Type is added to that map, or
\* to a new one when it is nil, unless json.Marshal failed
RequestHeaders(hp, a, e) ==
    LET marshalled == e # "jsonEncode"
        m == IF marshalled
             THEN HeaderAdd(Deref(hp, a), HeaderContentType, ApplicationJSON)
             ELSE Deref(hp, a)
    IN  [heap |-> IF a = 0 THEN hp ELSE [hp EXCEPT ![a] = m],
         headers |-> m]

\* Client.DoReq up to its first return or to the call of Client.Do in
\* DoAndDecode: Validate, r.Header(), c.Request
DoReq ==
    /\ dq.pc = "idle"
    /\ pc = "idle"
    /\ \E v \in ValidateErrs, e \in RequestErrs :
          IF v # "nil"
          THEN /\ dq' = DoReqInvalid(v)
               /\ UNCHANGED <<heap, rq, reqHeader>>
               /\ UNCHANGED <<rl, now, retries, pc, tries, res, err, resv,
                              ctxDone, trace, sent, rlA, rl0>>
               /\ UNCHANGED taskVars
          ELSE LET hr == Header(rq, heap)
                   rh == RequestHeaders(hr.heap, hr.ret, e)
               IN  /\ rq' = hr.r
                   /\ heap' = rh.heap
                   /\ IF e # "nil"
                      THEN /\ dq' = [pc |-> "returned", v |-> v,
                                     res |-> NoResponse, err |-> ErrorOf(e)]
                           /\ UNCHANGED reqHeader
                           /\ UNCHANGED <<rl, now, retries, pc, tries, res,
                                          err, resv, ctxDone, trace, sent,
                                          rlA, rl0>>
                           /\ UNCHANGED taskVars
                      ELSE /\ dq' = [dq EXCEPT !.pc = "do", !.v = v]
                           /\ reqHeader' = reqWithHeaders(NoHeaders, rh.headers)
                           /\ DoEnter
    /\ UNCHANGED <<client, client2, seen, hret>>

\* Client.Do has returned to DoAndDecode, which returns to DoReq, which
\* returns
DoReqReturn ==
    /\ dq.pc = "do"
    /\ pc = "returned"
    /\ IF err # "nil"
       THEN dq' = [dq EXCEPT !.pc = "returned", !.res = NoResponse,
                             !.err = ErrorOf(err)]
       ELSE \E d \in DecodeErrs :
               dq' = [dq EXCEPT !.pc = "returned", !.res = res,
                                !.err = ErrorOf(d)]
    /\ UNCHANGED <<rl, now, retries, pc, tries, res, err, resv, ctxDone,
                   trace, sent, rlA, rl0>>
    /\ UNCHANGED taskVars
    /\ UNCHANGED <<heap, client, client2, rq, reqHeader, seen, hret>>

(***************************************************************************)
(* SpecDoReq: one client, one call of Client.DoReq with a request model    *)
(* that has headers or none, a ReqID or none (TestClient_DoReq).           *)
(***************************************************************************)
ReqIDs == {"", "id"}

DoReqLimiters ==
    LET built == NewRateLimiter(RInt(2), <<RateLimitChangePercent(<<1, 2>>)>>)
    IN  {NilRateLimiter, built, Drained(built, 1)}

InitDoReq ==
    /\ rl \in DoReqLimiters
    /\ now = 0
    /\ retries \in 0 .. MaxRetries
    /\ pc = "idle"
    /\ tries = 0
    /\ res = NoResponse
    /\ err = "nil"
    /\ resv = NoReservation
    /\ ctxDone = FALSE
    /\ trace = <<>>
    /\ sent = <<>>
    /\ rlA = rl
    /\ rl0 = rl
    /\ task = [t \in 1 .. MaxTasks |-> NoTask]
    /\ nTasks = 0
    /\ nCalls = 0
    /\ last = NoCall
    /\ win = NoWindow
    /\ client = [NewClient EXCEPT !.RetriesOn429 = retries]
    /\ client2 = client
    /\ \E id \in ReqIDs :
          \/ rq = [ReqID |-> id, h |-> 0] /\ heap = <<>>
          \/ /\ rq = [ReqID |-> id, h |-> 1]
             /\ heap = <<HeaderAdd(NoHeaders, "X-Foo", "foo")>>
    /\ reqHeader = NoHeaders
    /\ seen = <<>>
    /\ hret = NoHeaderCalls
    /\ dq = [NoDoReq EXCEPT !.pc = "idle"]

NextDoReq ==
    \/ DoReq
    \/ doWait
    \/ doWaitTick
    \/ doWaitWake
    \/ doWaitCancel
    \/ doSend
    \/ DoLoop
    \/ CtxCancel
    \/ DoReqReturn

SpecDoReq == InitDoReq /\ [][NextDoReq]_vars

(***************************************************************************)
(* The builders of Client (src/ratelimiter_test.go lines 151-161) and the  *)
(* methods of the ReqHeaders it embeds.  The With* methods have value      *)
(* receivers: they work on a copy c of the Client and return it; the copy  *)
(* holds the same map address c.h as the original.                         *)
(***************************************************************************)
WithHost(c, v) == [c EXCEPT !.Host = v]
WithLogger(c, v) == [c EXCEPT !.log = v]
WithHttpClient(c, v) == [c EXCEPT !.HttpClient = v]
WithRateLimiter(c, v) == [c EXCEPT !.RateLimiter = v]
With429Retry(c, v) == [c EXCEPT !.RetriesOn429 = v]

\* the keys of the map h
KeysOf(h) == {k \in HeaderKeys : h[k] # <<>>}

\* for k, v := range h { c.AddHeader(k, v...) }
RECURSIVE WithHeaderKeys(_, _, _, _)
WithHeaderKeys(r, hp, h, keys) ==
    IF keys = {} THEN [r |-> r, heap |-> hp]
    ELSE LET k == CHOOSE x \in keys : TRUE
             a == AddHeader(r, hp, k, h[k])
         IN  WithHeaderKeys(a.r, a.heap, h, keys \ {k})

WithHeader(c, hp, h) ==
    LET a == WithHeaderKeys(c.ReqHeaders, hp, h, KeysOf(h))
    IN  [c |-> [c EXCEPT !.ReqHeaders = a.r], heap |-> a.heap]

\* the values the builders are given
BuilderHosts == {"http://host"}
BuilderLoggers == {"logger"}
BuilderTransports == {"transport"}
BuilderLimiters == {"rl2"}
BuilderRetries == {0}
BuilderHeaders ==
    {HeaderAdd(NoHeaders, "X-Foo", "foo"),
     HeaderAdd(HeaderAdd(NoHeaders, "X-Foo", "bar"),
               HeaderContentType, ApplicationJSON)}

\* the number of values held by the maps of the heap
RECURSIVE HeapSize(_)
HeapSize(hp) ==
    IF hp = <<>> THEN 0
    ELSE LET m == Head(hp)
         IN  Len(m[HeaderReqID]) + Len(m[HeaderContentType]) + Len(m["X-Foo"])
             + HeapSize(Tail(hp))

\* neither the Do machine nor the goroutines move
BuilderFrame ==
    /\ UNCHANGED <<rl, now, retries, pc, tries, res, err, resv, ctxDone,
                   trace, sent, rlA, rl0>>
    /\ UNCHANGED taskVars
    /\ UNCHANGED <<rq, reqHeader, seen, dq>>

\* c2 := c.WithX(v) for the builders that set one field
WithField ==
    /\ client2' \in {WithHost(client, v) : v \in BuilderHosts}
                \cup {WithLogger(client, v) : v \in BuilderLoggers}
                \cup {WithHttpClient(client, v) : v \in BuilderTransports}
                \cup {WithRateLimiter(client, v) : v \in BuilderLimiters}
                \cup {With429Retry(client, v) : v \in BuilderRetries}
    /\ UNCHANGED <<heap, client, hret>>
    /\ BuilderFrame

\* c2 := c.WithHeader(h)
WithHeaderCall ==
    /\ HeapSize(heap) < MaxOps
    /\ \E h \in BuilderHeaders :
          LET w == WithHeader(client, heap, h)
          IN  /\ client2' = w.c
              /\ heap' = w.heap
    /\ hret' = NoHeaderCalls
    /\ UNCHANGED client
    /\ BuilderFrame

\* the program goes on with the Client the builder returned: c = c2
Rebind ==
    /\ client2 # client
    /\ client' = client2
    /\ hret' = NoHeaderCalls
    /\ UNCHANGED <<heap, client2>>
    /\ BuilderFrame

\* c.AddHeader(key, val) and c.SetHeader(key, val) on the program's Client
AddHeaderCall ==
    /\ HeapSize(heap) < MaxOps
    /\ \E op \in {"Add", "Set"}, val \in {"baz"} :
          LET a == IF op = "Add"
                   THEN AddHeader(client.ReqHeaders, heap, "X-Foo", <<val>>)
                   ELSE SetHeader(client.ReqHeaders, heap, "X-Foo", <<val>>)
          IN  /\ client' = [client EXCEPT !.ReqHeaders = a.r]
              /\ heap' = a.heap
    /\ hret' = NoHeaderCalls
    /\ UNCHANGED client2
    /\ BuilderFrame

\* c.Header() on the program's Client
HeaderCall ==
    /\ HeapSize(heap) < MaxOps
    /\ hret.n < MaxOps
    /\ LET hr == Header(client.ReqHeaders, heap)
           got == Deref(hr.heap, hr.ret)
       IN  /\ client' = [client EXCEPT !.ReqHeaders = hr.r]
           /\ heap' = hr.heap
           /\ hret' = [n |-> hret.n + 1,
                       first |-> IF hret.n = 0 THEN got ELSE hret.first,
                       val |-> got]
    /\ UNCHANGED client2
    /\ BuilderFrame

(***************************************************************************)
(* SpecHeaders: a Client built by NewClient, with a ReqID or none, on      *)
(* which the program calls the builders, AddHeader, SetHeader and Header   *)
(* (TestClient_Do/headers).                                                *)
(***************************************************************************)
InitHeaders ==
    /\ rl = NewRateLimiter(MaxAllowedCallsPerSecond, <<>>)
    /\ now = 0
    /\ rl0 = rl
    /\ task = [t \in 1 .. MaxTasks |-> NoTask]
    /\ nTasks = 0
    /\ nCalls = 0
    /\ last = NoCall
    /\ win = NoWindow
    /\ retries = Default429Retry
    /\ pc = "off"
    /\ tries = 0
    /\ res = NoResponse
    /\ err = "nil"
    /\ resv = NoReservation
    /\ ctxDone = FALSE
    /\ trace = <<>>
    /\ sent = <<>>
    /\ rlA = rl
    /\ heap = <<>>
    /\ client \in {[NewClient EXCEPT !.ReqHeaders.ReqID = id] : id \in ReqIDs}
    /\ client2 = client
    /\ rq = NoReqHeaders
    /\ reqHeader = NoHeaders
    /\ seen = <<>>
    /\ hret = NoHeaderCalls
    /\ dq = NoDoReq

NextHeaders ==
    \/ WithField
    \/ WithHeaderCall
    \/ Rebind
    \/ AddHeaderCall
    \/ HeaderCall

SpecHeaders == InitHeaders /\ [][NextHeaders]_vars

(***************************************************************************)
(* SpecRetry: one call of Client.Do, with a request that has a header or   *)
(* none, on a Client that holds headers or none, a ReqID or none           *)
(* (TestClient_RetryOn429 with the client of TestClient_Do/headers).       *)
(***************************************************************************)
InitRetry ==
    /\ rl \in DoReqLimiters
    /\ now = 0
    /\ retries \in 0 .. MaxRetries
    /\ pc = "idle"
    /\ tries = 0
    /\ res = NoResponse
    /\ err = "nil"
    /\ resv = NoReservation
    /\ ctxDone = FALSE
    /\ trace = <<>>
    /\ sent = <<>>
    /\ rlA = rl
    /\ rl0 = rl
    /\ task = [t \in 1 .. MaxTasks |-> NoTask]
    /\ nTasks = 0
    /\ nCalls = 0
    /\ last = NoCall
    /\ win = NoWindow
    /\ \E id \in ReqIDs :
          \/ /\ heap = <<>>
             /\ client = [NewClient EXCEPT !.RetriesOn429 = retries,
                                           !.ReqHeaders.ReqID = id]
          \/ /\ heap = <<HeaderAdd(NoHeaders, "X-Foo", "baz")>>
             /\ client = [NewClient EXCEPT !.RetriesOn429 = retries,
                                           !.ReqHeaders.ReqID = id,
                                           !.ReqHeaders.h = 1]
    /\ client2 = client
    /\ rq = NoReqHeaders
    /\ reqHeader \in {NoHeaders, HeaderAdd(NoHeaders, "X-Foo", "foo")}
    /\ seen = <<>>
    /\ hret = NoHeaderCalls
    /\ dq = NoDoReq

SpecRetry == InitRetry /\ [][Next]_vars

(***************************************************************************)
(* Goroutines that call the RateLimiter directly (src/ratelimiter.go).     *)
(* task[t] holds the call goroutine t is in or has made: pc ("idle" before *)
(* its first call, "sleep" inside Wait, "done"), the method op and its     *)
(* argument arg, whether its context is done, the reservation it sleeps    *)
(* on, and what its doFn returns (fnErr).  The body of a method runs in    *)
(* one step, but for the sleep of Wait.                                    *)
(***************************************************************************)
IdleTask == [NoTask EXCEPT !.pc = "idle"]

Tasks == 1 .. MaxTasks

FnErrs == {"nil", "fn"}

\* the record of a call that returned: who called what, whether it slept,
\* the error it returned, how often doFn ran (calls), the value a getter
\* returned (val), the time it returned (at), the limiter before the call
\* (for a call that slept: before it woke) and after it
Returns(t, op, arg, cd, slept, e, fe, calls, val, rB, rR) ==
    [t |-> t, op |-> op, arg |-> arg, ctxDone |-> cd, slept |-> slept,
     err |-> e, fnErr |-> fe, calls |-> calls, val |-> val, at |-> now,
     rlB |-> rB, rlR |-> rR]

\* the goroutines are interchangeable: they are numbered in the order of
\* their first calls
Starts(t) == \A u \in 1 .. t - 1 : task[u].pc # "idle"

\* goroutine t calls method op: Do and Wait run up to the return or the
\* sleep of Wait (doFn runs when Wait returned nil); the others return
Call(t, op, arg, cd, fe) ==
    LET waits == op \in {"Wait", "Do"}
        w == Wait(rl, cd, now)
        asleep == waits /\ w.ret = "sleep"
        ran == op = "Do" /\ w.ret = "nil"
        r2 == CASE waits -> w.rl
                [] op = "SetLimit" -> SetLimit(rl, now, arg)
                [] op = "SetBurst" -> SetBurst(rl, now, arg[1])
                [] op = "SlowDown" -> SlowDown(rl, now)
                [] op = "SpeedUp" -> SpeedUp(rl, now)
                [] OTHER -> rl
        e == IF waits /\ w.ret = "err" THEN w.err
             ELSE IF ran THEN fe ELSE "nil"
        val == CASE op = "Limit" -> Limit(rl)
                 [] op = "Burst" -> RInt(Burst(rl))
                 [] OTHER -> Zero
    IN  /\ Starts(t)
        /\ rl' = r2
        /\ task' = [task EXCEPT ![t] =
              [pc |-> IF asleep THEN "sleep" ELSE "done",
               op |-> op, arg |-> arg, ctxDone |-> cd,
               resv |-> IF asleep THEN w.resv ELSE NoReservation,
               fnErr |-> fe]]
        /\ last' = IF asleep THEN last
                   ELSE Returns(t, op, arg, cd, FALSE, e, fe,
                                IF ran THEN 1 ELSE 0, val, rl, r2)
        /\ nCalls' = nCalls + 1
        /\ win' = IF waits /\ w.ret = "nil" THEN Counted(win) ELSE win
        /\ UNCHANGED <<now, rl0, nTasks>>
        /\ UNCHANGED doVars

\* the timer of the sleeping Wait of goroutine t has fired
Due(t) ==
    /\ task[t].pc = "sleep"
    /\ task[t].resv.timeToAct # InfDuration
    /\ now >= task[t].resv.timeToAct

\* the timer of the Wait of goroutine t fires: Wait returns nil, and Do
\* goes on to run doFn and returns what it returned
Wake(t) ==
    /\ Due(t)
    /\ task' = [task EXCEPT ![t].pc = "done", ![t].resv = NoReservation]
    /\ last' = LET c == task[t]
                   do == c.op = "Do"
               IN  Returns(t, c.op, c.arg, c.ctxDone, TRUE,
                           IF do THEN c.fnErr ELSE "nil", c.fnErr,
                           IF do THEN 1 ELSE 0, Zero, rl, rl)
    /\ win' = Counted(win)
    /\ UNCHANGED <<rl, now, rl0, nTasks, nCalls>>
    /\ UNCHANGED doVars

\* the context of a sleeping Wait is cancelled
TaskCtxCancel(t) ==
    /\ task[t].pc = "sleep"
    /\ ~task[t].ctxDone
    /\ task' = [task EXCEPT ![t].ctxDone = TRUE]
    /\ UNCHANGED <<rl, now, rl0, nTasks, nCalls, last, win>>
    /\ UNCHANGED doVars

\* the sleeping Wait of goroutine t sees ctx.Done(): it cancels its
\* reservation and returns ctx.Err(); Do returns it without running doFn
CancelWake(t) ==
    /\ task[t].pc = "sleep"
    /\ task[t].ctxDone
    /\ rl' = WaitCancel(rl, task[t].resv, now)
    /\ task' = [task EXCEPT ![t].pc = "done", ![t].resv = NoReservation]
    /\ last' = LET c == task[t]
               IN  Returns(t, c.op, c.arg, TRUE, TRUE, "ctx", c.fnErr, 0,
                           Zero, rl, rl')
    /\ UNCHANGED <<now, rl0, nTasks, nCalls, win>>
    /\ UNCHANGED doVars

\* some Wait sleeps on a timer
Sleeping ==
    \E t \in Tasks : /\ task[t].pc = "sleep"
                     /\ task[t].resv.timeToAct # InfDuration

\* a tick of the clock, which no timer lets pass that is due
Pass ==
    /\ \A t \in Tasks : ~Due(t)
    /\ now' = now + 1
    /\ UNCHANGED <<rl, rl0>>
    /\ UNCHANGED taskVars
    /\ UNCHANGED doVars

\* time goes on while a Wait sleeps
Tick == Sleeping /\ Pass

\* n goroutines, none of which has called yet
InitTasks(n) ==
    /\ now = 0
    /\ rl0 = rl
    /\ nTasks = n
    /\ task = [t \in Tasks |-> IF t <= n THEN IdleTask ELSE NoTask]
    /\ nCalls = 0
    /\ last = NoCall
    /\ win = NoWindow
    /\ InitNoDo

(***************************************************************************)
(* SpecThroughput: a limiter built by NewRateLimiter(R) and N goroutines   *)
(* that each call Wait or Do once, with a context nobody cancels, all of   *)
(* them within MaxStartDelay of the start (TestRateLimiter).               *)
(***************************************************************************)
Rates == {<<1, 2>>, RInt(1), <<3, 2>>, RInt(2), <<5, 2>>}

ThroughputCall(t) ==
    /\ task[t].pc = "idle"
    /\ \E op \in {"Wait", "Do"}, fe \in FnErrs :
          /\ op = "Wait" => fe = "nil"
          /\ Call(t, op, Zero, FALSE, fe)

\* time goes on up to MaxStartDelay, where it waits for the goroutines to
\* call, and then while a Wait sleeps
ThroughputTick ==
    /\ \/ now < MaxStartDelay
       \/ Sleeping /\ \A t \in Tasks : task[t].pc # "idle"
    /\ Pass

InitThroughput ==
    /\ rl \in {NewRateLimiter(r, <<>>) : r \in Rates}
    /\ \E n \in Tasks : InitTasks(n)

NextThroughput ==
    \/ \E t \in Tasks : ThroughputCall(t)
    \/ \E t \in Tasks : Wake(t)
    \/ ThroughputTick

SpecThroughput == InitThroughput /\ [][NextThroughput]_vars

(***************************************************************************)
(* SpecAbsent: a limiter that starts nil or without a bucket, and          *)
(* goroutines that call any of its methods, one call after another,        *)
(* MaxOps calls in all (TestRateLimiter_nilSafe).  Once SetLimit has given *)
(* the limiter a bucket, the goroutines go on with Wait and Do.            *)
(***************************************************************************)
AbsentLimiters ==
    {NilRateLimiter, UnsetRateLimiter(Zero),
     UnsetRateLimiter(DefaultCPSChangePercent)}

AbsentRates == {RInt(3), RInt(6)}
AbsentBursts == {1, 2}

\* the calls a goroutine may make: <<method, argument>>
AbsentOps ==
    {<<op, Zero>> : op \in {"Wait", "Do", "SlowDown", "SpeedUp",
                            "Limit", "Burst"}}
    \cup {<<"SetLimit", r>> : r \in AbsentRates}
    \cup {<<"SetBurst", RInt(b)>> : b \in AbsentBursts}

AbsentCall(t) ==
    /\ task[t].pc \in {"idle", "done"}
    /\ nCalls < MaxOps
    /\ \E o \in AbsentOps, cd \in BOOLEAN, fe \in FnErrs :
          /\ o[1] # "Do" => fe = "nil"
          /\ o[1] \notin {"Wait", "Do"} => ~cd /\ Absent(rl)
          /\ Call(t, o[1], o[2], cd, fe)

InitAbsent ==
    /\ rl \in AbsentLimiters
    /\ InitTasks(MaxTasks)

NextAbsent ==
    \/ \E t \in Tasks : AbsentCall(t)
    \/ \E t \in Tasks : Wake(t)
    \/ \E t \in Tasks : TaskCtxCancel(t)
    \/ \E t \in Tasks : CancelWake(t)
    \/ Tick

SpecAbsent == InitAbsent /\ [][NextAbsent]_vars

(***************************************************************************)
(* SpecTune: one goroutine that tunes a limiter, MaxOps calls one after    *)
(* another.  The limiter has no bucket or is built by NewRateLimiter with  *)
(* the options and the values their signatures accept, percentages and     *)
(* bursts outside the data model's ranges among them; its arithmetic keeps *)
(* FloatBits bits (TestRateLimiter_speedControl, TestRateLimit).           *)
(***************************************************************************)
\* a float literal
Lit(a) == Fl(FloatBits, a)

TuneRates == {Lit(RInt(3)), Lit(RInt(6))}
TunePercents == {Lit(<<1, 10>>), Lit(<<1, 5>>), Lit(<<1, 2>>),
                 Zero, Lit(<<3, 2>>)}
TuneBursts == {0, 2}
TuneSetRates == {Zero, Lit(RInt(3)), Lit(RInt(-1))}

\* the option lists: at most one option of a kind
TuneOptions ==
    LET ps == {<<>>} \cup {<<RateLimitChangePercent(p)>> : p \in TunePercents}
        bs == {<<>>} \cup {<<RateLimitBurst(b)>> : b \in TuneBursts}
    IN  {po \o bo : po \in ps, bo \in bs}

TuneLimiters ==
    {[r EXCEPT !.prec = FloatBits] :
        r \in {UnsetRateLimiter(Zero)}
               \cup {NewRateLimiter(l, o) : l \in TuneRates, o \in TuneOptions}}

TuneOps ==
    {<<op, Zero>> : op \in {"Wait", "SlowDown", "SpeedUp"}}
    \cup {<<"SetLimit", r>> : r \in TuneSetRates}
    \cup {<<"SetBurst", RInt(b)>> : b \in TuneBursts}

TuneCall(t) ==
    /\ task[t].pc \in {"idle", "done"}
    /\ nCalls < MaxOps
    /\ \E o \in TuneOps : Call(t, o[1], o[2], FALSE, "nil")

InitTune ==
    /\ rl \in TuneLimiters
    /\ InitTasks(1)

NextTune ==
    \/ \E t \in Tasks : TuneCall(t)
    \/ \E t \in Tasks : Wake(t)
    \/ \E t \in Tasks : TaskCtxCancel(t)
    \/ \E t \in Tasks : CancelWake(t)
    \/ Tick

SpecTune == InitTune /\ [][NextTune]_vars

(***************************************************************************)
(* SpecConcurrent: goroutines that call SlowDown, SpeedUp and Wait on one  *)
(* limiter at the same time, one call each.  SlowDown and SpeedUp are two  *)
(* steps: r.Limit() reads the rate under the mutex of the bucket, and      *)
(* r.SetLimit(...) writes the new one under the same mutex, taken anew.    *)
(***************************************************************************)
ConcurrentLimiters ==
    {NewRateLimiter(l, <<RateLimitChangePercent(percent)>>) :
        l \in {RInt(3), RInt(6)}, percent \in {<<1, 10>>, <<1, 2>>}}

\* goroutine t calls SlowDown or SpeedUp: past the nil checks, it reads
\* r.Limit() and works out the new rate
MutRead(t) ==
    /\ task[t].pc = "idle"
    /\ Starts(t)
    /\ ~Absent(rl)
    /\ \E op \in {"SlowDown", "SpeedUp"} :
          task' = [task EXCEPT ![t] =
             [IdleTask EXCEPT
                !.pc = "read",
                !.op = op,
                !.arg = IF op = "SlowDown" THEN Limit(SlowDown(rl, now))
                        ELSE Limit(SpeedUp(rl, now))]]
    /\ nCalls' = nCalls + 1
    /\ UNCHANGED <<rl, now, rl0, nTasks, last, win>>
    /\ UNCHANGED doVars

\* goroutine t goes on: r.SetLimit writes the rate it worked out
MutWrite(t) ==
    /\ task[t].pc = "read"
    /\ rl' = SetLimit(rl, now, task[t].arg)
    /\ task' = [task EXCEPT ![t].pc = "done"]
    /\ last' = Returns(t, task[t].op, task[t].arg, FALSE, FALSE, "nil", "nil",
                       0, Zero, rl, rl')
    /\ UNCHANGED <<now, rl0, nTasks, nCalls, win>>
    /\ UNCHANGED doVars

ConcurrentWait(t) ==
    /\ task[t].pc = "idle"
    /\ Call(t, "Wait", Zero, FALSE, "nil")

InitConcurrent ==
    /\ rl \in ConcurrentLimiters
    /\ \E n \in Tasks : InitTasks(n)

NextConcurrent ==
    \/ \E t \in Tasks : MutRead(t)
    \/ \E t \in Tasks : MutWrite(t)
    \/ \E t \in Tasks : ConcurrentWait(t)
    \/ \E t \in Tasks : Wake(t)
    \/ Tick

SpecConcurrent == InitConcurrent /\ [][NextConcurrent]_vars

(***************************************************************************)
(* SpecCancel: a limiter built by NewRateLimiter(R) and goroutines that    *)
(* each call Wait once, with contexts that may be cancelled while the      *)
(* Wait sleeps.                                                            *)
(***************************************************************************)
CancelWait(t) ==
    /\ task[t].pc = "idle"
    /\ Call(t, "Wait", Zero, FALSE, "nil")

InitCancel ==
    /\ rl \in {NewRateLimiter(r, <<>>) : r \in Rates}
    /\ \E n \in Tasks : InitTasks(n)

NextCancel ==
    \/ \E t \in Tasks : CancelWait(t)
    \/ \E t \in Tasks : Wake(t)
    \/ \E t \in Tasks : TaskCtxCancel(t)
    \/ \E t \in Tasks : CancelWake(t)
    \/ ThroughputTick

SpecCancel == InitCancel /\ [][NextCancel]_vars

(***************************************************************************)
(* SpecWindow: a limiter built by NewRateLimiter(R, RateLimitBurst(B)),    *)
(* its bucket full, and goroutines that call Wait at any time, one after   *)
(* another or together (as the calls of TestClient_RateLimit go through    *)
(* Client.do), while an observer counts the calls that return nil from a   *)
(* time of its choice (start := time.Now()).                               *)
(***************************************************************************)
WindowBursts == {1, 2}

WindowWait(t) ==
    /\ task[t].pc = "idle"
    /\ Call(t, "Wait", Zero, FALSE, "nil")

\* the observer starts to count
WindowOpen ==
    /\ ~win.open
    /\ win' = [open |-> TRUE, from |-> now, n |-> 0]
    /\ UNCHANGED <<rl, now, rl0, task, nTasks, nCalls, last>>
    /\ UNCHANGED doVars

\* time goes on up to MaxStartDelay and while a Wait sleeps
WindowTick ==
    /\ now < MaxStartDelay \/ Sleeping
    /\ Pass

InitWindow ==
    /\ rl \in {NewRateLimiter(r, <<RateLimitBurst(b)>>) :
                  r \in Rates, b \in WindowBursts}
    /\ \E n \in Tasks : InitTasks(n)

NextWindow ==
    \/ \E t \in Tasks : WindowWait(t)
    \/ \E t \in Tasks : Wake(t)
    \/ WindowOpen
    \/ WindowTick

SpecWindow == InitWindow /\ [][NextWindow]_vars

(***************************************************************************)
(* Properties of Client.Do, checked under Spec.                            *)
(***************************************************************************)
Returned == pc = "returned"

\* no Wait of the call has returned an error
NoWaitErr == \A i \in 1 .. Len(trace) : trace[i] # "WaitErr"

\* the transport answered with a 429 response and a nil error
Ok429(o) == Is429(o.res) /\ o.err = "nil"
\* the transport answered with a response that is not a 429, and a nil error
OkOther(o) == ~o.res.nil /\ ~Is429(o.res) /\ o.err = "nil"

\* the first j answers of the transport were 429 responses
First429(j) == j <= Len(sent) /\ \A i \in 1 .. j : Ok429(sent[i])

\* how many 429 responses the call has received
Count429 == Cardinality({i \in 1 .. Len(sent) : Is429(sent[i].res)})

\* the number of the transport call whose event is trace[i]
SendNo(i) == Cardinality({j \in 1 .. i : trace[j] = "send"})

Last(q) == q[Len(q)]

\* C1: with RetriesOn429 = k >= 0 and a transport that answers every call
\* with a 429 response (and no Wait cancelled), Do makes exactly k + 1
\* transport calls, never more, and returns the last 429 response with a
\* nil error.
C1_AllOverloaded ==
    (retries >= 0 /\ First429(Len(sent)) /\ NoWaitErr) =>
        /\ Len(sent) <= retries + 1
        /\ Returned =>
              /\ Len(sent) = retries + 1
              /\ res = Last(sent).res
              /\ Is429(res)
              /\ err = "nil"

C1_Witness ==
    /\ Returned
    /\ retries = MaxRetries
    /\ Len(sent) = MaxRetries + 1
    /\ First429(Len(sent))
    /\ Is429(res)

\* C2: for every j <= k, when the transport answers the first j calls with
\* 429 and call j + 1 with a response that is not a 429, Do does make call
\* j + 1 (it does not return after the j-th 429), makes no call after it,
\* and returns that response with a nil error.
C2_RetryThenPass ==
    \A j \in 0 .. retries :
        /\ (Returned /\ NoWaitErr /\ First429(j)) => Len(sent) > j
        /\ (First429(j) /\ Len(sent) > j /\ OkOther(sent[j + 1])) =>
              /\ Len(sent) = j + 1
              /\ pc \in {"loop", "returned"}
              /\ res = sent[j + 1].res
              /\ err = "nil"

C2_Witness ==
    /\ Returned
    /\ retries = MaxRetries
    /\ Len(sent) = MaxRetries + 1
    /\ First429(MaxRetries)
    /\ OkOther(Last(sent))
    /\ res = Response(200, MaxRetries + 1)

\* the rate, burst and changePercent of a limiter
Tuning(r) == <<Limit(r), Burst(r), r.changePercent>>

\* the transport's latest answer is a response that is not a 429
LastNot429 == Len(sent) >= 1 /\ ~Last(sent).res.nil /\ ~Is429(Last(sent).res)

\* C3 as stated: a response that is not a 429 ends the call and is returned
\* unchanged, and the limiter's rate, burst and changePercent are the same
\* after Do as before it.
C3_AsStated ==
    /\ \A i \in 1 .. Len(sent) :
          (~sent[i].res.nil /\ ~Is429(sent[i].res)) => i = Len(sent)
    /\ (Returned /\ LastNot429) =>
          /\ res = Last(sent).res
          /\ Tuning(rl) = Tuning(rl0)

\* C3: a response that is not a 429 ends the call and is returned
\* unchanged, and the attempt that received it leaves the limiter's rate,
\* burst and changePercent as they were when the attempt began; they are
\* those of before Do when no earlier attempt of the call received a 429.
C3_PassThrough ==
    /\ \A i \in 1 .. Len(sent) :
          (~sent[i].res.nil /\ ~Is429(sent[i].res)) => i = Len(sent)
    /\ LastNot429 =>
          /\ pc \in {"loop", "returned"}
          /\ res = Last(sent).res
          /\ Tuning(rl) = Tuning(rlA)
          /\ Count429 = 0 => Tuning(rl) = Tuning(rl0)

C3_Witness ==
    /\ Returned
    /\ LastNot429
    /\ Last(sent).res.status = 500
    /\ Count429 = 1
    /\ ~Absent(rl)
    /\ Tuning(rl) # Tuning(rl0)

\* the transport call whose event is trace[i] was followed by a SlowDown
SlowedAt(i) == i + 2 <= Len(trace) /\ trace[i + 2] = "SlowDown"

\* C4 as stated: a transport call that returns a non-nil error, whatever
\* response comes with it, is the last transport call of Do, no SlowDown
\* follows it, and Do returns that error.
C4_AsStated ==
    \A i \in 1 .. Len(trace) :
        (trace[i] = "send" /\ sent[SendNo(i)].err # "nil") =>
            /\ SendNo(i) = Len(sent)
            /\ pc \in {"loop", "returned", "panic"}
            /\ ~SlowedAt(i)
            /\ Returned => err = sent[SendNo(i)].err

C6_WaitBeforeSend ==
    /\ \A i \in 1 .. Len(trace) :
          /\ trace[i] = "send" => (i > 1 /\ trace[i - 1] = "Wait")
          /\ (trace[i] = "Wait" /\ i < Len(trace)) => trace[i + 1] = "send"
          /\ (trace[i] = "Wait" /\ i > 1) =>
                trace[i - 1] \in {"Error", "Warn", "Info", "SlowDown"}
    /\ pc = "send" <=> (trace # <<>> /\ Last(trace) = "Wait")

C6_Witness ==
    /\ pc = "send"
    /\ Len(sent) = MaxRetries
    /\ MaxRetries >= 1
    /\ now > 0
    /\ Last(trace) = "Wait"

\* C7: once a Wait of the call has returned an error, in its first attempt
\* or in a retry, nothing follows it: no transport call, no SlowDown, no
\* further attempt, and Do returns a nil response and that error.
C7_WaitCancelled ==
    \A i \in 1 .. Len(trace) :
        trace[i] = "WaitErr" =>
            /\ i = Len(trace)
            /\ pc \in {"loop", "returned"}
            /\ res = NoResponse
            /\ err = "ctx"

C7_Witness ==
    /\ Returned
    /\ Last(trace) = "WaitErr"
    /\ Len(sent) >= 1
    /\ tries < retries
    /\ err = "ctx"
    /\ res.nil

(***************************************************************************)
(* Properties of NewRateLimiter(R) under N concurrent callers, checked     *)
(* under SpecThroughput.                                                   *)
(***************************************************************************)
\* the goroutines whose call has returned, and their number
DoneTasks == {t \in Tasks : task[t].pc = "done"}
NumDone == Cardinality(DoneTasks)

AllDone == nTasks >= 1 /\ NumDone = nTasks

\* the call that returned last was held up by nothing but the limiter's
\* timer: Wait returned nil, Do ran doFn once and returned what it returned
LastPassed ==
    /\ last.err = (IF last.op = "Do" THEN last.fnErr ELSE "nil")
    /\ last.calls = (IF last.op = "Do" THEN 1 ELSE 0)

IsWhole(a) == a[2] = 1

\* math.Ceil(n / R) - 1 seconds, in ticks
MinTicks(n, R) == (RCeil(RDiv(RInt(n), R)) - 1) * TicksPerSec

\* C8 as stated: when all N calls have returned, each of them has passed
\* and the last of them returned no earlier than ceil(N / R) - 1 seconds
\* after the start.
C8_AsStated ==
    AllDone => /\ LastPassed
               /\ last.at >= MinTicks(nTasks, Limit(rl0))

\* C8: no call sleeps without a timer, every call that returns has passed,
\* and the k-th call to return does so later than (k - 1) / R seconds less
\* one tick (the truncation of the wait to the clock's resolution) after
\* the start; for a whole number R that is no earlier than
\* ceil(k / R) - 1 seconds.
C8_Throughput ==
    /\ \A t \in Tasks :
          task[t].pc = "sleep" => task[t].resv.timeToAct # InfDuration
    /\ NumDone >= 1 =>
          /\ LastPassed
          /\ RLt(RInt((NumDone - 1) * TicksPerSec),
                 RMul(Limit(rl0), RInt(last.at + 1)))
          /\ IsWhole(Limit(rl0)) => last.at >= MinTicks(NumDone, Limit(rl0))

C8_Witness ==
    /\ AllDone
    /\ nTasks >= 3
    /\ Limit(rl0) = <<5, 2>>
    /\ last.slept
    /\ last.op = "Do"
    /\ last.at < MinTicks(nTasks, Limit(rl0))
    /\ \E t \in Tasks : task[t].op = "Wait"

(***************************************************************************)
(* Properties of a limiter that is nil or has no bucket, checked under     *)
(* SpecAbsent.                                                             *)
(***************************************************************************)
NoneSleeps == \A t \in Tasks : task[t].pc # "sleep"

\* C9: on a nil *RateLimiter no caller is ever inside Wait, however many
\* call and whatever the state of their contexts: Wait returns nil at once,
\* Do runs doFn exactly once and returns exactly what it returned, and
\* Limit() returns MaxAllowedCallsPerSecond.
C9_NilLimiter ==
    rl0.nil =>
        /\ rl = NilRateLimiter
        /\ NoneSleeps
        /\ nCalls >= 1 =>
              /\ ~last.slept
              /\ last.rlB = NilRateLimiter
              /\ last.op = "Wait" => last.err = "nil"
              /\ last.op = "Do" => last.calls = 1 /\ last.err = last.fnErr
              /\ last.op = "Limit" => last.val = MaxAllowedCallsPerSecond

C9_Witness ==
    /\ rl0.nil
    /\ nCalls >= 2
    /\ last.t >= 2
    /\ last.op = "Do"
    /\ last.ctxDone
    /\ last.fnErr = "fn"
    /\ last.err = "fn"
    /\ last.calls = 1
    /\ \E t \in Tasks : task[t].op = "Wait" /\ task[t].ctxDone

\* the limiter answers as one that does not throttle
Unthrottled(r) ==
    /\ Absent(r)
    /\ Limit(r) = MaxAllowedCallsPerSecond
    /\ Burst(r) = DefaultBurst

\* C10 as stated: whatever has been called on a limiter that started nil
\* or without a bucket, no call has blocked or failed and the limiter is in
\* the state it started in, Limit() being MaxAllowedCallsPerSecond and
\* Burst() DefaultBurst.
C10_AsStated ==
    /\ NoneSleeps
    /\ nCalls >= 1 => LastPassed
    /\ rl = rl0
    /\ Unthrottled(rl)

\* C10: a call on a limiter that is nil or has no bucket returns at once
\* without an error of its own and leaves the limiter as it was, still
\* unthrottled, but for SetLimit(rate) on a non-nil limiter without a
\* bucket, which gives it a bucket of that rate and of DefaultBurst; a nil
\* limiter stays nil.
C10_AbsentIdentity ==
    /\ rl0.nil => rl = rl0
    /\ Absent(rl) => NoneSleeps /\ Unthrottled(rl)
    /\ (nCalls >= 1 /\ Absent(last.rlB)) =>
          /\ ~last.slept
          /\ LastPassed
          /\ IF last.op = "SetLimit" /\ ~last.rlB.nil
             THEN /\ last.rlR =
                        [last.rlB EXCEPT
                           !.Limiter = RateNewLimiter(last.arg, DefaultBurst)]
                  /\ ~Absent(last.rlR)
                  /\ Limit(last.rlR) = last.arg
                  /\ Burst(last.rlR) = DefaultBurst
             ELSE /\ last.rlR = last.rlB
                  /\ Unthrottled(last.rlR)

C10_Witness ==
    /\ nCalls >= 2
    /\ last.op = "SetLimit"
    /\ Absent(last.rlB)
    /\ ~last.rlB.nil
    /\ last.rlB = rl0
    /\ ~Absent(rl)
    /\ Limit(rl) = last.arg
    /\ Limit(rl) # MaxAllowedCallsPerSecond

(***************************************************************************)
(* Properties of the tuning of a limiter, checked under SpecTune.          *)
(***************************************************************************)
RAbs(a) == <<Abs(a[1]), a[2]>>

\* a limiter with a bucket, a rate above 0 and a changePercent in (0, 1)
InModel(r) ==
    /\ ~Absent(r)
    /\ RLt(Zero, Limit(r))
    /\ RLt(Zero, r.changePercent)
    /\ RLt(r.changePercent, One)

\* a is b up to three roundings: |a - b| <= 3 * 2^(-FloatBits) * |b|
Within(a, b) ==
    RLe(RMul(RAbs(RSub(a, b)), RInt(2^FloatBits)), RMul(RInt(3), RAbs(b)))

\* the rate after SlowDown and then SpeedUp on limiter r
RoundTrip(r) == Limit(SpeedUp(SlowDown(r, now), now))

\* the goroutine has called SlowDown and then SpeedUp on the limiter it
\* started with, and nothing else
SlowedThenSped ==
    /\ nCalls = 2
    /\ last.op = "SpeedUp"
    /\ InModel(rl0)
    /\ last.rlB = SlowDown(rl0, 0)

\* C11 as stated: SlowDown and then SpeedUp leave Limit() equal to r0.
C11_AsStated ==
    /\ InModel(rl) => RoundTrip(rl) = Limit(rl)
    /\ SlowedThenSped => Limit(rl) = Limit(rl0)

\* C11: SpeedUp sets the rate to the rounded quotient of the rate by the
\* rounded 1 - p, so SlowDown and then SpeedUp leave Limit() within three
\* roundings of r0.
C11_RoundTrip ==
    /\ InModel(rl) => Within(RoundTrip(rl), Limit(rl))
    /\ SlowedThenSped => Within(Limit(rl), Limit(rl0))
    /\ (nCalls >= 1 /\ last.op = "SpeedUp" /\ ~Absent(last.rlB)) =>
          Limit(last.rlR) =
             Fl(FloatBits,
                RDiv(Limit(last.rlB),
                     Fl(FloatBits, RSub(One, last.rlB.changePercent))))

C11_Witness ==
    /\ SlowedThenSped
    /\ Limit(rl) # Limit(rl0)
    /\ Within(Limit(rl), Limit(rl0))
    /\ RLt(Limit(last.rlB), Limit(rl))

(***************************************************************************)
(* Properties of concurrent SlowDown and SpeedUp, checked under            *)
(* SpecConcurrent.                                                         *)
(***************************************************************************)
\* how many goroutines have returned from method op
Returned_(op) ==
    Cardinality({t \in Tasks : task[t].pc = "done" /\ task[t].op = op})

\* the rate after s SlowDowns and u SpeedUps made one after another on the
\* limiter of the start, in any order
SerialRate(s, u) ==
    LET q == RSub(One, rl0.changePercent)
    IN  RDiv(RMul(Limit(rl0), RPow(q, s)), RPow(q, u))

\* C12 as stated: once every goroutine has returned, Limit() is the rate
\* that the SlowDowns and SpeedUps made give in a serial order, and it is
\* positive.
C12_AsStated ==
    AllDone =>
        /\ Limit(rl) = SerialRate(Returned_("SlowDown"), Returned_("SpeedUp"))
        /\ RLt(Zero, Limit(rl))

(***************************************************************************)
(* Properties of a cancelled Wait, checked under SpecCancel.               *)
(***************************************************************************)
\* the step in which the sleeping Wait of goroutine t returns ctx.Err()
\* before its token is there
CancelledPending(t) ==
    /\ task[t].pc = "sleep"
    /\ now < task[t].resv.timeToAct
    /\ task'[t].pc = "done"
    /\ last'.t = t
    /\ last'.err = "ctx"

\* the time at which a Wait issued now on limiter r is admitted
AdmitAt(r) == RateReserveN(r.Limiter, now)[1].timeToAct

C14_AsStated == ~Absent(rl) => RLt(Zero, Limit(rl))

\* C15 as stated: in every reachable state the capacity is at least 1 and
\* changePercent lies strictly between 0 and 1.
C15_AsStated ==
    rl # NilRateLimiter =>
        /\ Burst(rl) >= 1
        /\ RLt(Zero, rl.changePercent)
        /\ RLt(rl.changePercent, One)

LogLevels == {"Info", "Warn", "Error"}

\* the events of the trace that end an attempt: the transport call has
\* returned (Done) or Wait has failed (Cancelled)
IsAttemptEnd(e) == e \in {"send", "WaitErr"}
IsLogged(e) == e \in LogLevels

\* C17 as stated: once Client.do has returned to the loop of Client.Do,
\* every attempt that has ended, by a transport call that returned or by
\* a Wait that failed, is followed at once by one call of the logger, so
\* that there are as many log records as ended attempts.
C17_AsStated ==
    pc \in {"loop", "returned"} =>
        /\ \A i \in 1 .. Len(trace) :
              IsAttemptEnd(trace[i]) =>
                  /\ i < Len(trace)
                  /\ IsLogged(trace[i + 1])
        /\ Len(SelectSeq(trace, IsLogged)) =
               Len(SelectSeq(trace, IsAttemptEnd))

\* the level the documentation gives to outcome o of the transport call
LevelAsStated(o) ==
    IF o.err # "nil" \/ o.res.status >= 500 THEN "Error"
    ELSE IF o.res.status >= 400 THEN "Warn"
    ELSE "Info"

\* what logRqRs did for each transport call, in order
IsLogRqRs(e) == e \in LogLevels \cup {"panic"}
Logged == SelectSeq(trace, IsLogRqRs)

\* C18 as stated: every transport call that returned a response or an
\* error is logged at the level its outcome determines: Error for a
\* transport error or a status of 500 or above, Warn for 400 to 499, Info
\* below 400.
C18_AsStated ==
    \A i \in 1 .. Len(sent) :
        (i <= Len(Logged) /\ ~(sent[i].res.nil /\ sent[i].err = "nil")) =>
            Logged[i] = LevelAsStated(sent[i])

(***************************************************************************)
(* The bound of the token bucket, checked under SpecWindow.                *)
(***************************************************************************)
\* the tokens a bucket of rate R hands out in d ticks
Refill(d) == RMul(Limit(rl), Rat(d, TicksPerSec))

Unset(r) == ~r.nil /\ ~r.Limiter.set

\* C20: a SetLimit(rate) that has returned has, on a RateLimiter without
\* a bucket, built one with that rate and DefaultBurst (Limit() returns
\* rate, Burst() returns 1), and on a RateLimiter with a bucket has
\* replaced the rate and left the capacity as it was; changePercent is in
\* both cases what it was.
C20_SetLimit ==
    (nCalls > 0 /\ last.op = "SetLimit" /\ ~last.rlB.nil) =>
        /\ ~Absent(last.rlR)
        /\ Limit(last.rlR) = last.arg
        /\ Burst(last.rlR) =
              IF Unset(last.rlB) THEN DefaultBurst ELSE Burst(last.rlB)
        /\ last.rlR.changePercent = last.rlB.changePercent

\* a limiter that began without a bucket, was given one by SetLimit and a
\* capacity of 2 by SetBurst, and whose rate another SetLimit has changed
C20_Witness ==
    /\ Unset(rl0)
    /\ nCalls > 0 /\ last.op = "SetLimit"
    /\ ~Absent(last.rlB)
    /\ Burst(last.rlB) = 2
    /\ Limit(last.rlB) # last.arg
    /\ Limit(rl) = last.arg

(***************************************************************************)
(* Client.DoReq, checked under SpecDoReq.                                  *)
(***************************************************************************)
\* C21: once DoReq has been called with a request model whose Validate()
\* returned an error, it has returned a nil response and an error that
\* matches ErrInvalidRequest and the validation error, the transport has
\* not been called, Wait has not been called and the limiter is as it was.
C21_DoReqInvalid ==
    (dq.pc # "idle" /\ dq.v # "nil") =>
        /\ dq.pc = "returned"
        /\ dq.res.nil
        /\ ErrorsIs(dq.err, ErrInvalidRequest)
        /\ ErrorsIs(dq.err, dq.v)
        /\ sent = <<>> /\ seen = <<>>
        /\ trace = <<>>
        /\ pc = "idle"
        /\ rl = rl0

\* DoReq has returned the validation error on a client whose limiter has
\* a bucket
C21_Witness ==
    /\ dq.pc = "returned"
    /\ dq.v = "ErrStreetRequired"
    /\ ~Absent(rl)

(***************************************************************************)
(* The builders and ReqHeaders.Header, checked under SpecHeaders.          *)
(***************************************************************************)
\* what is observed through the Client c: its fields, and the headers of
\* the map it holds
Observed(c, hp) ==
    [Host |-> c.Host, log |-> c.log, HttpClient |-> c.HttpClient,
     RateLimiter |-> c.RateLimiter, RetriesOn429 |-> c.RetriesOn429,
     ReqID |-> c.ReqHeaders.ReqID, headers |-> Deref(hp, c.ReqHeaders.h)]

\* C22 as stated: a step c2 := c.WithX(v), for each of the builders,
\* leaves what is observed through c as it was, also when c holds headers.
C22_AsStated ==
    [][(WithField \/ WithHeaderCall) =>
          Observed(client, heap)' = Observed(client, heap)]_vars

\* C25 as stated: after any number of Header() calls in a row the call
\* has returned what the first of them returned, the stored headers are
\* what they were after the first call, and X-Request-ID carries a
\* non-empty ReqID exactly once.
C25_AsStated ==
    hret.n >= 1 =>
        /\ hret.val = hret.first
        /\ Deref(heap, client.ReqHeaders.h) = hret.first
        /\ client.ReqHeaders.ReqID # "" =>
              hret.val[HeaderReqID] = <<client.ReqHeaders.ReqID>>

(***************************************************************************)
(* The request of the retries, checked under SpecRetry.                    *)
(***************************************************************************)
\* C24 as stated: the header of the request that the transport sees on
\* every attempt of one Client.Do call holds, for every key, the values
\* it held on the first attempt.
C24_AsStated == \A n \in 1 .. Len(seen) : seen[n] = seen[1]

(***************************************************************************)
(* Termination of Client.Do, checked under SpecLive.                       *)
(***************************************************************************)
\* the transport has returned neither a response nor an error
TransportBroken == pc = "panic"

=============================================================================
